---------------------------- MODULE Spec2Model ----------------------------
(***************************************************************************)
(* A model of the abstract maker base class (Maker<C>) of Electron Forge   *)
(* and of the hotRestart plugin of its Vite integration.                   *)
(*                                                                         *)
(* Four specifications share one set of variables:                         *)
(*   SpecMaker      construction of a maker variant and its lifecycle      *)
(*                  calls (platforms, prepareConfig, make,                 *)
(*                  isSupportedOnCurrentPlatform)                          *)
(*   SpecBinaries   externalBinariesExist / ensureExternalBinariesExist    *)
(*   SpecStaging    ensureDirectory / ensureFile of two makers on one      *)
(*                  file system, one step per await                        *)
(*   SpecHotRestart the closeBundle hook of one hotRestart plugin          *)
(* Each specification leaves the variables of the others at their idle     *)
(* values.                                                                 *)
(***************************************************************************)
EXTENDS Integers, Sequences, FiniteSets, TLC

VARIABLES
    maker,          \* the fields a maker instance gets at construction
    config,         \* Maker.config, the live resolved configuration
    last,           \* the completion of the most recent method call
    onPath,         \* the binaries which.sync resolves on the search path
    fs,             \* the file system: path -> "none" | "file" | "dir"
    proc,           \* per maker: its position in ensureDirectory / ensureFile
    plugin          \* the closure of one hotRestart(options) plugin

vars == <<maker, config, last, onPath, fs, proc, plugin>>

(***************************************************************************)
(* Values                                                                  *)
(***************************************************************************)
Names == {"zip", "deb"}
Platforms == {"darwin", "linux"}
Archs == {"x64", "arm64"}
Tools == {"toolA", "toolB", "toolC"}

\* The longest requiredExternalBinaries list a variant declares here.
MaxBinaries == 2

\* The number of closeBundle events one hotRestart plugin sees here.
MaxEvents == 4

\* Identities of configuration objects. EmptyObject is the `{} as C` the
\* constructor's default parameter creates.
EmptyObject == "{}"
ConfigObjects == {"cfgP", "cfgQ"}
Unset == "unset"
Raises == "raises"

\* A factory maps an architecture to a configuration object, or raises.
Factories == [Archs -> ConfigObjects \cup {Raises}]

\* The first constructor argument as the caller passes it: nothing, a
\* configuration object, or a function of the architecture.
ConstructorArgs ==
    {[type |-> "undefined", obj |-> Unset, fn |-> [a \in Archs |-> Raises]]}
    \cup {[type |-> "object", obj |-> o, fn |-> [a \in Archs |-> Raises]] : o \in ConfigObjects}
    \cup {[type |-> "function", obj |-> Unset, fn |-> f] : f \in Factories}

\* The optional second constructor argument: absent, or an array of platforms
\* (which may be empty).
PlatformArgs ==
    {[supplied |-> FALSE, value |-> {}]}
    \cup {[supplied |-> TRUE, value |-> s] : s \in SUBSET Platforms}

\* How a variant provides an extension point: it inherits the base method,
\* overrides it with its own body, or overrides it and calls super.
Impls == {"inherited", "own", "super"}

(***************************************************************************)
(* Completions of calls                                                    *)
(***************************************************************************)
NoMessage == <<>>

\* A completion record. `how` is "return" or "throw"; `promise` is "n/a" for a
\* synchronous result and "fulfilled" / "rejected" for the promise an async
\* function returns.
Completion(op, arg, how, promise, message, value) ==
    [op |-> op, arg |-> arg, how |-> how, promise |-> promise,
     message |-> message, value |-> value]

NoCall == Completion("none", "", "return", "n/a", NoMessage, {})

Returned(op, arg, value) == Completion(op, arg, "return", "n/a", NoMessage, value)
Threw(op, arg, message) == Completion(op, arg, "throw", "n/a", message, {})

\* `async` turns the completion of a function body into a returned promise: a
\* throw in the body becomes a rejection, a return a fulfilment.
AsyncFunction(c) ==
    IF c.how = "throw"
    THEN [c EXCEPT !.how = "return", !.promise = "rejected"]
    ELSE [c EXCEPT !.promise = "fulfilled"]

\* Values returned by the methods, as sets so that one record shape holds all.
BoolValue(b) == {IF b THEN "true" ELSE "false"}
ArtifactsOf(m) == {"/out/make/" \o m.name}

(***************************************************************************)
(* Maker: constructor, platforms, prepareConfig                            *)
(***************************************************************************)
\* constructor(configOrConfigFetcher = {} as C, platformsToMakeOn?), with the
\* fields the variant declares: name, defaultPlatforms, the two extension
\* points, and requiredExternalBinaries ([] unless the variant sets it).
Constructor(name, defaultPlatforms, binaries, makeImpl, supportedImpl, configArg, platformArg) ==
    [name |-> name,
     defaultPlatforms |-> defaultPlatforms,
     requiredExternalBinaries |-> binaries,
     make |-> makeImpl,
     isSupportedOnCurrentPlatform |-> supportedImpl,
     configOrConfigFetcher |->
        IF configArg.type = "undefined"
        THEN [configArg EXCEPT !.type = "object", !.obj = EmptyObject]
        ELSE configArg,
     platformsToMakeOn |-> platformArg]

\* JavaScript truthiness of this.platformsToMakeOn: undefined is falsy, every
\* array is truthy, the empty one included.
Truthy(p) == p.supplied

PlatformsIgnoringOverride(m) == m.defaultPlatforms

\* get platforms()
platforms(m) ==
    IF Truthy(m.platformsToMakeOn) THEN m.platformsToMakeOn.value
    ELSE m.defaultPlatforms

\* typeof x === 'function'
IsFunction(x) == x.type = "function"

prepareConfigKeepingFirst(m, cfg, arch) ==
    IF cfg # Unset THEN [raised |-> FALSE, config |-> cfg]
    ELSE IF IsFunction(m.configOrConfigFetcher)
         THEN IF m.configOrConfigFetcher.fn[arch] = Raises
              THEN [raised |-> TRUE, config |-> cfg]
              ELSE [raised |-> FALSE, config |-> m.configOrConfigFetcher.fn[arch]]
         ELSE [raised |-> FALSE, config |-> m.configOrConfigFetcher.obj]

\* prepareConfig(targetArch): the new value of this.config and whether the
\* factory raised (the assignment is then never reached).
prepareConfig(m, cfg, arch) ==
    IF IsFunction(m.configOrConfigFetcher)
    THEN IF m.configOrConfigFetcher.fn[arch] = Raises
         THEN [raised |-> TRUE, config |-> cfg]
         ELSE [raised |-> FALSE, config |-> m.configOrConfigFetcher.fn[arch]]
    ELSE [raised |-> FALSE, config |-> m.configOrConfigFetcher.obj]


(***************************************************************************)
(* Maker: the two extension points and their failure-fast defaults         *)
(***************************************************************************)
\* What `this.make` / `this.isSupportedOnCurrentPlatform` evaluates to on an
\* instance of the variant: the override if the variant has one, else the
\* method of Maker.prototype.
MethodOf(m, method) ==
    IF m[method] = "inherited" THEN "Maker.prototype" ELSE "override"

\* `Maker ${this.name} did not implement the ${method} method`
NotImplementedMessage(m, method) ==
    <<"Maker ", m.name, " did not implement the ", method, " method">>

isSupportedNeverThrows(m) ==
    Returned("isSupportedOnCurrentPlatform", "", BoolValue(TRUE))

isSupportedAlwaysThrows(m) ==
    Threw("isSupportedOnCurrentPlatform", "",
          NotImplementedMessage(m, "isSupportedOnCurrentPlatform"))

\* Maker.prototype.isSupportedOnCurrentPlatform, run with this = m
Maker_isSupportedOnCurrentPlatform(m) ==
    IF MethodOf(m, "isSupportedOnCurrentPlatform") = "Maker.prototype"
    THEN Threw("isSupportedOnCurrentPlatform", "",
               NotImplementedMessage(m, "isSupportedOnCurrentPlatform"))
    ELSE Returned("isSupportedOnCurrentPlatform", "", BoolValue(TRUE))

makeThrowingSynchronously(m) ==
    IF MethodOf(m, "make") = "Maker.prototype"
    THEN Threw("make", "", NotImplementedMessage(m, "make"))
    ELSE AsyncFunction(Returned("make", "", {}))

\* Maker.prototype.make, run with this = m: an async function, so the throw
\* in its body is delivered as a rejected promise.
Maker_make(m) ==
    AsyncFunction(
        IF MethodOf(m, "make") = "Maker.prototype"
        THEN Threw("make", "", NotImplementedMessage(m, "make"))
        ELSE Returned("make", "", {}))

\* m.isSupportedOnCurrentPlatform() as the orchestrator calls it; an own
\* override answers `answer`, a delegating one returns super's result.
Call_isSupportedOnCurrentPlatform(m, answer) ==
    CASE m.isSupportedOnCurrentPlatform = "inherited" -> Maker_isSupportedOnCurrentPlatform(m)
      [] m.isSupportedOnCurrentPlatform = "super" -> Maker_isSupportedOnCurrentPlatform(m)
      [] m.isSupportedOnCurrentPlatform = "own" ->
            Returned("isSupportedOnCurrentPlatform", "", BoolValue(answer))

\* m.make(opts) as the orchestrator calls it; an own override resolves to its
\* artifacts, a delegating one returns super's promise.
Call_make(m) ==
    CASE m.make = "inherited" -> Maker_make(m)
      [] m.make = "super" -> Maker_make(m)
      [] m.make = "own" -> AsyncFunction(Returned("make", "", ArtifactsOf(m)))

(***************************************************************************)
(* Idle values of the variables a specification does not use               *)
(***************************************************************************)
NoMaker ==
    Constructor("zip", {}, <<>>, "inherited", "inherited",
                [type |-> "undefined", obj |-> Unset, fn |-> [a \in Archs |-> Raises]],
                [supplied |-> FALSE, value |-> {}])

IdleMaker == maker = NoMaker /\ config = Unset
IdleBinaries == onPath = {}
IdleStaging == fs = <<>> /\ proc = <<>>
IdlePlugin == plugin = <<>>

(***************************************************************************)
(* SpecMaker: one maker variant, constructed once, driven through its      *)
(* lifecycle calls in any order and any number of times                    *)
(***************************************************************************)
InitMaker ==
    /\ \E name \in Names, dp \in SUBSET Platforms, mi \in Impls, si \in Impls,
          ca \in ConstructorArgs, pa \in PlatformArgs :
            maker = Constructor(name, dp, <<>>, mi, si, ca, pa)
    /\ config = Unset
    /\ last = NoCall
    /\ IdleBinaries /\ IdleStaging /\ IdlePlugin

GetPlatforms ==
    /\ last' = Returned("platforms", "", platforms(maker))
    /\ UNCHANGED <<maker, config, onPath, fs, proc, plugin>>

PrepareConfig ==
    \E arch \in Archs :
        LET r == prepareConfig(maker, config, arch) IN
        /\ config' = r.config
        /\ last' = IF r.raised
                   THEN Threw("prepareConfig", arch, <<"factory error">>)
                   ELSE Returned("prepareConfig", arch, {})
        /\ UNCHANGED <<maker, onPath, fs, proc, plugin>>

IsSupportedOnCurrentPlatform ==
    \E answer \in BOOLEAN :
        /\ last' = Call_isSupportedOnCurrentPlatform(maker, answer)
        /\ UNCHANGED <<maker, config, onPath, fs, proc, plugin>>

Make ==
    /\ last' = Call_make(maker)
    /\ UNCHANGED <<maker, config, onPath, fs, proc, plugin>>

NextMaker == GetPlatforms \/ PrepareConfig \/ IsSupportedOnCurrentPlatform \/ Make

SpecMaker == InitMaker /\ [][NextMaker]_vars


(***************************************************************************)
(* Properties of SpecMaker                                                 *)
(***************************************************************************)
Contains(message, part) == \E i \in 1..Len(message) : message[i] = part

\* A call failed: it threw, or the promise it returned was rejected.
Failed(c) == c.how = "throw" \/ c.promise = "rejected"

OverrideSupplied == maker.platformsToMakeOn.supplied
Override == maker.platformsToMakeOn.value

\* C1, as stated: `platforms` returns the override exactly when a non-empty
\* override was supplied at construction, and defaultPlatforms in every other
\* case, an empty override included.
C1_AsStated ==
    last.op = "platforms" =>
        last.value = IF OverrideSupplied /\ Override # {}
                     THEN Override ELSE maker.defaultPlatforms

\* C1, amended: `platforms` returns the override exactly when an override was
\* supplied at construction, an empty one included, and defaultPlatforms when
\* none was supplied; the result is one of the two sets, never a merge.
C1_PlatformsOverrideWhenSupplied ==
    last.op = "platforms" =>
        /\ last.how = "return"
        /\ OverrideSupplied => last.value = Override
        /\ ~OverrideSupplied => last.value = maker.defaultPlatforms
        /\ last.value \in {Override, maker.defaultPlatforms}

C1_Witness ==
    /\ last.op = "platforms"
    /\ OverrideSupplied /\ Override = {}
    /\ maker.defaultPlatforms = Platforms
    /\ last.value = {}

\* C2: on a variant that does not override `make` (respectively
\* `isSupportedOnCurrentPlatform`), a call of that method fails, and the
\* message of the failure holds the variant's name and the method's name; the
\* call never yields a value.
C2_MissingOverrideFails ==
    \A method \in {"make", "isSupportedOnCurrentPlatform"} :
        (last.op = method /\ maker[method] = "inherited") =>
            /\ Failed(last)
            /\ last.promise # "fulfilled"
            /\ last.value = {}
            /\ Contains(last.message, maker.name)
            /\ Contains(last.message, method)

C2_Witness ==
    /\ last.op = "isSupportedOnCurrentPlatform"
    /\ maker.isSupportedOnCurrentPlatform = "inherited"
    /\ maker.make = "own"
    /\ maker.name = "deb"
    /\ last.message = <<"Maker ", "deb", " did not implement the ",
                        "isSupportedOnCurrentPlatform", " method">>

\* C3: on a variant that overrides both `make` and
\* `isSupportedOnCurrentPlatform`, no call of either fails, whatever calls
\* came before and also when the override delegates to the base method.
C3_OverridesNeverViolate ==
    (/\ maker.make # "inherited"
     /\ maker.isSupportedOnCurrentPlatform # "inherited"
     /\ last.op \in {"make", "isSupportedOnCurrentPlatform"}) =>
        /\ ~Failed(last)
        /\ last.message = NoMessage

C3_Witness ==
    /\ maker.make = "super"
    /\ maker.isSupportedOnCurrentPlatform = "super"
    /\ last.op = "isSupportedOnCurrentPlatform"
    /\ last.how = "return"
    /\ last.value = BoolValue(TRUE)
    /\ config # Unset

\* What prepareConfig(arch) is specified to resolve to when nothing raises.
IsFactory == maker.configOrConfigFetcher.type = "function"
FactoryResult(arch) == maker.configOrConfigFetcher.fn[arch]
StoredValue == maker.configOrConfigFetcher.obj

\* C4, as stated: after a prepareConfig call the live config is the stored
\* value of a Static source, or factory(arch) of a Factory source for the
\* call's arch, and no config of an earlier architecture survives the call.
C4_AsStated ==
    last.op = "prepareConfig" =>
        IF ~IsFactory THEN config = StoredValue
        ELSE IF FactoryResult(last.arg) # Raises THEN config = FactoryResult(last.arg)
        ELSE config = Unset

\* C4, amended: a prepareConfig call that returns leaves in `config` the stored
\* value of a Static source, or factory(arch) of a Factory source for the
\* call's arch, whatever `config` held before; a call in which the factory
\* raises leaves `config` as it was.
C4_ConfigOfLastReturnedCall ==
    [][last'.op = "prepareConfig" =>
        IF last'.how = "return"
        THEN config' = IF IsFactory THEN FactoryResult(last'.arg) ELSE StoredValue
        ELSE config' = config /\ IsFactory /\ FactoryResult(last'.arg) = Raises]_vars

C4_Witness ==
    /\ last.op = "prepareConfig" /\ last.how = "return" /\ last.arg = "arm64"
    /\ IsFactory
    /\ FactoryResult("x64") = "cfgP"
    /\ FactoryResult("arm64") = "cfgQ"
    /\ config = "cfgQ"

\* C8, as stated: on a variant lacking the override, the call of `make` or of
\* `isSupportedOnCurrentPlatform` itself throws.
C8_AsStated ==
    \A method \in {"make", "isSupportedOnCurrentPlatform"} :
        (last.op = method /\ maker[method] = "inherited") => last.how = "throw"

\* C8, amended: on a variant lacking the override, the call of
\* `isSupportedOnCurrentPlatform` itself throws; the call of `make` returns a
\* promise, and that promise is rejected.
C8_SyncThrowAsyncRejection ==
    /\ (last.op = "isSupportedOnCurrentPlatform"
        /\ maker.isSupportedOnCurrentPlatform = "inherited") =>
            last.how = "throw" /\ last.promise = "n/a"
    /\ (last.op = "make" /\ maker.make = "inherited") =>
            last.how = "return" /\ last.promise = "rejected"

C8_Witness ==
    /\ last.op = "make" /\ maker.make = "inherited"
    /\ last.how = "return" /\ last.promise = "rejected"
    /\ Contains(last.message, "make")


(***************************************************************************)
(* Maker: external binaries                                                *)
(***************************************************************************)
\* which.sync(binary, { nothrow: true }): the resolved path, or null
whichSync(binary, path) ==
    IF binary \in path THEN "/usr/bin/" \o binary ELSE "null"

\* Array.prototype.join: the elements with the separator between neighbours
RECURSIVE join(_, _)
join(array, separator) ==
    IF Len(array) = 0 THEN <<>>
    ELSE IF Len(array) = 1 THEN <<array[1]>>
    ELSE <<array[1], separator>> \o join(Tail(array), separator)

externalBinariesExistAny(m, path) ==
    \E i \in 1..Len(m.requiredExternalBinaries) :
        whichSync(m.requiredExternalBinaries[i], path) # "null"

\* externalBinariesExist(): requiredExternalBinaries.every(...)
externalBinariesExist(m, path) ==
    \A i \in 1..Len(m.requiredExternalBinaries) :
        whichSync(m.requiredExternalBinaries[i], path) # "null"

MissingMessagePrefix(m) ==
    <<"Cannot make for ", m.name,
      ", the following external binaries need to be installed: ">>

\* ensureExternalBinariesExist()
ensureExternalBinariesExist(m, path) ==
    IF ~externalBinariesExist(m, path)
    THEN Threw("ensureExternalBinariesExist", "",
               MissingMessagePrefix(m) \o join(m.requiredExternalBinaries, ", "))
    ELSE Returned("ensureExternalBinariesExist", "", {})

(***************************************************************************)
(* SpecBinaries: a maker with its required binaries on a machine with some *)
(* of the tools installed                                                  *)
(***************************************************************************)
BinaryLists == UNION {[1..n -> Tools] : n \in 0..MaxBinaries}

InitBinaries ==
    /\ \E name \in Names, bins \in BinaryLists :
            maker = [NoMaker EXCEPT !.name = name, !.requiredExternalBinaries = bins]
    /\ onPath \in SUBSET Tools
    /\ config = Unset
    /\ last = NoCall
    /\ IdleStaging /\ IdlePlugin

ExternalBinariesExist ==
    /\ last' = Returned("externalBinariesExist", "",
                        BoolValue(externalBinariesExist(maker, onPath)))
    /\ UNCHANGED <<maker, config, onPath, fs, proc, plugin>>

EnsureExternalBinariesExist ==
    /\ last' = ensureExternalBinariesExist(maker, onPath)
    /\ UNCHANGED <<maker, config, onPath, fs, proc, plugin>>

NextBinaries == ExternalBinariesExist \/ EnsureExternalBinariesExist

SpecBinaries == InitBinaries /\ [][NextBinaries]_vars

Required == maker.requiredExternalBinaries
AllResolve == \A i \in 1..Len(Required) : Required[i] \in onPath

\* C5: externalBinariesExist() is true iff every required binary resolves on
\* the search path (true for an empty list); ensureExternalBinariesExist()
\* fails exactly when it is false, and the message of the failure lists every
\* required binary in declaration order with ", " between neighbours, the
\* resolving ones included.
C5_BinariesValidated ==
    /\ last.op = "externalBinariesExist" =>
            last.how = "return" /\ last.value = BoolValue(AllResolve)
    /\ last.op = "ensureExternalBinariesExist" =>
            /\ Failed(last) <=> ~AllResolve
            /\ Failed(last) =>
                LET n == Len(MissingMessagePrefix(maker)) IN
                /\ last.how = "throw"
                /\ Len(last.message) = n + 2 * Len(Required) - 1
                /\ \A i \in 1..Len(Required) :
                        /\ last.message[n + 2 * i - 1] = Required[i]
                        /\ i < Len(Required) => last.message[n + 2 * i] = ", "

C5_Witness ==
    /\ last.op = "ensureExternalBinariesExist"
    /\ Required = <<"toolA", "toolB">>
    /\ onPath = {"toolA"}
    /\ last.how = "throw"
    /\ Contains(last.message, "toolA")
    /\ Contains(last.message, "toolB")


(***************************************************************************)
(* hotRestart(options): the closure and its closeBundle hook               *)
(***************************************************************************)
\* The values of `options`: left out, true, false, or a user function.
RestartOptions == {"undefined", "true", "false", "function"}
Modes == {"development", "production", "test"}
Unresolved == "unresolved"

\* hotRestart(options): `config` is declared and not yet assigned,
\* isFirstStart = false. The counters record what the hook has done: calls
\* of restart() by the hook itself, calls of the user function, and 'rs'
\* data events emitted on stdin (by the hook or by the user function).
hotRestart(options) ==
    [options |-> options, config |-> Unresolved, isFirstStart |-> FALSE,
     restarts |-> 0, optionCalls |-> 0, emitted |-> 0,
     events |-> 0, eligible |-> 0]

\* configResolved(_config)
configResolved(p, mode) == [p EXCEPT !.config = mode]

\* restart(): process.stdin.emit('data', 'rs')
restart(p) == [p EXCEPT !.emitted = @ + 1]

closeBundleSkipFirst(p, userRestarts) ==
    IF ~p.isFirstStart THEN [p EXCEPT !.isFirstStart = TRUE]
    ELSE IF p.config = "production" THEN p
    ELSE IF p.options = "false" THEN p
    ELSE IF p.options = "function"
         THEN [p EXCEPT !.optionCalls = @ + 1, !.emitted = @ + userRestarts]
         ELSE [restart(p) EXCEPT !.restarts = @ + 1]

\* closeBundle(); the user function, when it is called, calls the restart it
\* is handed `userRestarts` times.
closeBundle(p, userRestarts) ==
    IF p.config = "production" THEN p
    ELSE IF p.options = "false" THEN p
    ELSE IF ~p.isFirstStart THEN [p EXCEPT !.isFirstStart = TRUE]
    ELSE IF p.options = "function"
         THEN [p EXCEPT !.optionCalls = @ + 1, !.emitted = @ + userRestarts]
         ELSE [restart(p) EXCEPT !.restarts = @ + 1]

(***************************************************************************)
(* SpecHotRestart: one plugin instance; Vite resolves the configuration    *)
(* before it closes a bundle, and may resolve it again                     *)
(***************************************************************************)
InitHotRestart ==
    /\ \E options \in RestartOptions : plugin = hotRestart(options)
    /\ last = NoCall
    /\ IdleStaging
    /\ IdleMaker /\ IdleBinaries

ConfigResolved ==
    \E mode \in Modes :
        /\ plugin' = configResolved(plugin, mode)
        /\ UNCHANGED <<maker, config, last, onPath, fs, proc>>

\* An event is eligible when it is neither in production mode nor disabled.
Eligible(p) == p.config # "production" /\ p.options # "false"

CloseBundle ==
    \E userRestarts \in 0..1 :
        /\ plugin.config # Unresolved
        /\ plugin.events < MaxEvents
        /\ plugin' = [closeBundle(plugin, userRestarts) EXCEPT
                        !.events = @ + 1,
                        !.eligible = IF Eligible(plugin) THEN @ + 1 ELSE @]
        /\ UNCHANGED <<maker, config, last, onPath, fs, proc>>

NextHotRestart == ConfigResolved \/ CloseBundle

SpecHotRestart == InitHotRestart /\ [][NextHotRestart]_vars

\* C10: after any sequence of closeBundle events of one plugin, the actions
\* triggered number max(0, eligible events - 1): production-mode and disabled
\* events trigger nothing and do not use up the first-start skip, the first
\* eligible event triggers nothing, and every later one triggers exactly one
\* action, a call of the user function (and no direct restart) when `options`
\* is a function, else a direct restart that emits 'rs' on stdin.
C10_RestartsCountEligibleEvents ==
    /\ plugin.restarts + plugin.optionCalls =
            IF plugin.eligible = 0 THEN 0 ELSE plugin.eligible - 1
    /\ plugin.isFirstStart <=> plugin.eligible > 0
    /\ plugin.options = "function" => plugin.restarts = 0
    /\ plugin.options # "function" =>
            plugin.optionCalls = 0 /\ plugin.emitted = plugin.restarts

C10_Witness ==
    /\ plugin.options = "function"
    /\ plugin.config = "production"
    /\ plugin.events = 4
    /\ plugin.eligible = 3
    /\ plugin.optionCalls = 2
    /\ plugin.restarts = 0


(***************************************************************************)
(* The file system the staging helpers work on, and the fs-extra calls     *)
(* they make                                                               *)
(***************************************************************************)
Root == <<>>
Paths ==
    {<<"out">>, <<"out", "make">>, <<"out", "make", "app">>, <<"out", "make", "log">>}
NoPath == <<"">>

\* path.dirname(file)
dirname(path) == SubSeq(path, 1, Len(path) - 1)

IsPrefix(p, q) == Len(p) <= Len(q) /\ SubSeq(q, 1, Len(p)) = p
Inside(dir, q) == IsPrefix(dir, q) /\ q # dir
Ancestors(path) == {q \in Paths : Inside(q, path)}

Kind(f, path) == IF path = Root THEN "dir" ELSE f[path]

\* Every entry lies in a directory.
WellFormed(f) == \A q \in Paths : f[q] # "none" => Kind(f, dirname(q)) = "dir"
FileSystems == {f \in [Paths -> {"none", "file", "dir"}] : WellFormed(f)}

\* fs.pathExists(path): fs.access succeeded
pathExists(f, path) == Kind(f, path) # "none"

removeFilesOnly(f, path) ==
    IF Kind(f, path) = "file" THEN [f EXCEPT ![path] = "none"] ELSE f

removeEntryOnly(f, path) ==
    IF path \in Paths THEN [f EXCEPT ![path] = "none"] ELSE f

\* fs.remove(path): the entry and everything inside it; nothing when absent
remove(f, path) ==
    [q \in Paths |-> IF IsPrefix(path, q) THEN "none" ELSE f[q]]

\* fs.mkdirs(path): every missing segment becomes a directory; an error when a
\* segment is there and is no directory
mkdirs(f, path) ==
    IF \E q \in Paths : IsPrefix(q, path) /\ f[q] = "file"
    THEN [ok |-> FALSE, fs |-> f]
    ELSE [ok |-> TRUE,
          fs |-> [q \in Paths |-> IF IsPrefix(q, path) THEN "dir" ELSE f[q]]]

(***************************************************************************)
(* Maker: ensureDirectory and ensureFile, one step per await               *)
(***************************************************************************)
Makers == {"m1", "m2"}
StagingOps == {"ensureDirectory", "ensureFile"}

\* A maker outside any staging call.
Idle ==
    [pc |-> "idle", op |-> "none", target |-> NoPath, exists |-> FALSE,
     error |-> FALSE, interfered |-> FALSE, wasNonEmpty |-> FALSE,
     artifact |-> NoPath]

mkdirsTargetItself(op, target) == target

\* The path handed to fs.mkdirs: `dir` in ensureDirectory,
\* path.dirname(file) in ensureFile.
mkdirsTarget(op, target) ==
    IF op = "ensureDirectory" THEN target ELSE dirname(target)

\* Every other maker inside a call has seen the file system change under it.
Interfere(m, changed) ==
    [x \in Makers |->
        IF x # m /\ changed /\ proc[x].pc # "idle"
        THEN [proc[x] EXCEPT !.interfered = TRUE] ELSE proc[x]]

\* ensureDirectory(dir) / ensureFile(file) is called.
Call(m) ==
    \E op \in StagingOps, target \in Paths :
        /\ proc[m].pc = "idle"
        /\ proc' = [proc EXCEPT ![m] =
                [Idle EXCEPT !.pc = "pathExists", !.op = op, !.target = target,
                             !.wasNonEmpty = \E q \in Paths :
                                    Inside(target, q) /\ fs[q] # "none"]]
        /\ UNCHANGED <<maker, config, last, onPath, fs, plugin>>

\* if (await fs.pathExists(...))
PathExistsStep(m) ==
    /\ proc[m].pc = "pathExists"
    /\ LET found == pathExists(fs, proc[m].target) IN
        proc' = [proc EXCEPT ![m].exists = found,
                             ![m].pc = IF found THEN "remove" ELSE "mkdirs"]
    /\ UNCHANGED <<maker, config, last, onPath, fs, plugin>>

\* await fs.remove(...)
RemoveStep(m) ==
    /\ proc[m].pc = "remove"
    /\ fs' = remove(fs, proc[m].target)
    /\ proc' = [Interfere(m, fs' # fs) EXCEPT ![m].pc = "mkdirs"]
    /\ UNCHANGED <<maker, config, last, onPath, plugin>>

\* return fs.mkdirs(dir) / await fs.mkdirs(path.dirname(file))
MkdirsStep(m) ==
    /\ proc[m].pc = "mkdirs"
    /\ LET r == mkdirs(fs, mkdirsTarget(proc[m].op, proc[m].target)) IN
        /\ fs' = r.fs
        /\ proc' = [Interfere(m, fs' # fs) EXCEPT ![m].pc = "done",
                                                  ![m].error = ~r.ok]
    /\ UNCHANGED <<maker, config, last, onPath, plugin>>

\* The maker's own make() writes an artifact into the directory it staged.
WriteArtifact(m) ==
    \E file \in Paths :
        /\ proc[m].pc = "done" /\ proc[m].op = "ensureDirectory" /\ ~proc[m].error
        /\ dirname(file) = proc[m].target
        /\ fs[proc[m].target] = "dir"
        /\ fs[file] # "dir"
        /\ fs' = [fs EXCEPT ![file] = "file"]
        /\ proc' = [Interfere(m, fs' # fs) EXCEPT ![m].pc = "written",
                                                  ![m].artifact = file]
        /\ UNCHANGED <<maker, config, last, onPath, plugin>>

\* The call chain of the maker ends.
Return(m) ==
    /\ proc[m].pc \in {"done", "written"}
    /\ proc' = [proc EXCEPT ![m] = Idle]
    /\ UNCHANGED <<maker, config, last, onPath, fs, plugin>>

(***************************************************************************)
(* SpecStaging: two makers staging on one file system, with no lock        *)
(* between them                                                            *)
(***************************************************************************)
InitStaging ==
    /\ fs \in FileSystems
    /\ proc = [m \in Makers |-> Idle]
    /\ last = NoCall
    /\ IdleMaker /\ IdleBinaries /\ IdlePlugin

NextStaging ==
    \E m \in Makers :
        \/ Call(m)
        \/ PathExistsStep(m)
        \/ RemoveStep(m)
        \/ MkdirsStep(m)
        \/ WriteArtifact(m)
        \/ Return(m)

SpecStaging == InitStaging /\ [][NextStaging]_vars


(***************************************************************************)
(* Properties of SpecStaging                                               *)
(***************************************************************************)
\* The call of maker m ran to its end with no file-system error and with no
\* other maker changing the file system meanwhile.
CompletedAlone(m, op) ==
    /\ proc[m].pc = "done" /\ proc[m].op = op
    /\ ~proc[m].error /\ ~proc[m].interfered

\* C6: when ensureDirectory(dir) has run to its end with no interference and
\* no file-system error, dir is a directory with no entries and every parent
\* segment of it is a directory, whatever the file system held before.
C6_EnsureDirectoryLeavesEmptyDir ==
    \A m \in Makers :
        CompletedAlone(m, "ensureDirectory") =>
            /\ fs[proc[m].target] = "dir"
            /\ \A q \in Paths : Inside(proc[m].target, q) => fs[q] = "none"
            /\ \A q \in Ancestors(proc[m].target) : fs[q] = "dir"

C6_Witness ==
    \E m \in Makers :
        /\ CompletedAlone(m, "ensureDirectory")
        /\ proc[m].target = <<"out", "make">>
        /\ proc[m].exists /\ proc[m].wasNonEmpty
        /\ fs[<<"out", "make">>] = "dir"
        /\ fs[<<"out", "make", "app">>] = "none"

\* C7: when ensureFile(path) has run to its end with no interference and no
\* file-system error, nothing exists at path (the file is removed and is not
\* created) and every directory of its parent chain exists, whatever the file
\* system held before.
C7_EnsureFileLeavesNoFile ==
    \A m \in Makers :
        CompletedAlone(m, "ensureFile") =>
            /\ fs[proc[m].target] = "none"
            /\ \A q \in Ancestors(proc[m].target) : fs[q] = "dir"

C7_Witness ==
    \E m \in Makers :
        /\ CompletedAlone(m, "ensureFile")
        /\ proc[m].target = <<"out", "make", "app">>
        /\ proc[m].exists
        /\ fs[<<"out", "make", "app">>] = "none"
        /\ fs[<<"out", "make">>] = "dir"

\* Maker m is between the removal and the recreation of an ensureDirectory
\* on a dir it found existing.
InWindow(m) ==
    /\ proc[m].op = "ensureDirectory" /\ proc[m].pc = "mkdirs"
    /\ proc[m].exists

\* C9: ensureDirectory is neither atomic nor guarded. (a) While a maker is
\* between the removal and the recreation of an existing dir, and no other
\* maker has acted, dir is absent for every observer. (b) The removal step of
\* one maker deletes the artifact another maker wrote into dir after its own
\* ensureDirectory: no step of the other maker is needed for it, and nothing
\* holds the removal back.
C9_NonAtomicUnguarded ==
    /\ [](\A m \in Makers :
            (InWindow(m) /\ ~proc[m].interfered) => fs[proc[m].target] = "none")
    /\ [][\A m, o \in Makers :
            (/\ m # o
             /\ proc[m].pc = "remove" /\ proc'[m].pc = "mkdirs"
             /\ proc[o].pc = "written"
             /\ IsPrefix(proc[m].target, proc[o].artifact)
             /\ fs[proc[o].artifact] = "file") =>
                /\ fs'[proc[o].artifact] = "none"
                /\ proc'[o].interfered]_vars

C9_Witness ==
    \E m, o \in Makers :
        /\ m # o
        /\ InWindow(m)
        /\ proc[m].target = <<"out", "make">>
        /\ fs[<<"out", "make">>] = "none"
        /\ proc[o].pc = "written" /\ proc[o].op = "ensureDirectory"
        /\ proc[o].target = <<"out", "make">>
        /\ proc[o].artifact = <<"out", "make", "app">>
        /\ proc[o].interfered

=============================================================================
